---------------------------- MODULE Spec2Model ----------------------------
(***************************************************************************)
(* A model of the simple-stats import pipeline: File.match                 *)
(* (util/filesystem.py), the per-file Config resolver (stats/config.py),   *)
(* the MCF importer (stats/mcf_importer.py) and Runner (stats/runner.py).  *)
(*                                                                         *)
(* Python strings are sequences of one-character strings, so that the      *)
(* glob-to-regex translation of File.match is computed character by        *)
(* character.  A Python value handed to File.match is tagged with its      *)
(* type (PyStr / PyList): File.match starts with pattern.startswith("/"),  *)
(* which only a str has.                                                   *)
(***************************************************************************)
EXTENDS Integers, Sequences, FiniteSets, TLC

VARIABLES
    m_arg,      \* File.match: the argument `pattern` of the call
    m_path,     \* File.match: self.path of the File
    m_pc,       \* File.match: "call" before the call, "done" after it
    m_result,   \* File.match: outcome of the call
    c_cfg,      \* Config._input_files_config: <<key, settings>> in declaration order
    c_memo,     \* Config._config_key_by_full_path
    c_q,        \* the last per-file query on the Config and its outcome
    i_pc,       \* McfImporter.do_import: position in the method
    i_main_dc,  \* McfImporter.is_main_dc
    i_input_file,  \* McfImporter.input_file
    i_output_file, \* McfImporter.output_file
    i_records,  \* the records mcf_to_triples yields for the input file
    i_log,      \* what the importer did, in order: reports, reads, writes, inserts
    i_err,      \* the exception caught by do_import, then raised to its caller
    i_triples,  \* the local `triples` of do_import
    i_db,       \* the argument lists of the db.insert_triples calls
    i_out,      \* what was written to output_file
    r_pc,       \* Runner: position in __init__ / run
    r_mode,     \* Runner.mode
    r_files,    \* the files the input stores enumerate, in enumeration order
    r_special,  \* Runner.special_file_names_by_type, as <<type, name>> pairs
    r_found,    \* the keys of Runner.special_files
    r_gen,      \* Config.generate_hierarchy()
    r_sv,       \* the store holds statistical-variable triples
    r_csv,      \* input_csv_files
    r_mcf,      \* input_mcf_files
    r_log,      \* the steps run() has taken, in order, each with its outcome
    r_err,      \* the exception raised by a step
    r_reporter, \* Runner.reporter exists
    r_reports,  \* the run-level reports made to the ImportReporter, in order
    r_db,       \* the output store: the open transaction and what is committed
    r_prev,     \* the log and the committed store of each earlier run, in order
    r_stores,   \* Runner.stores, each with whether it has been closed
    cli         \* the command-line process: flags, position, exit code

matchVars == <<m_arg, m_path, m_pc, m_result>>
configVars == <<c_cfg, c_memo, c_q>>
importerVars ==
    <<i_pc, i_main_dc, i_input_file, i_output_file, i_records, i_log, i_err, i_triples, i_db,
      i_out>>
runnerVars ==
    <<r_pc, r_mode, r_files, r_special, r_found, r_gen, r_sv, r_csv, r_mcf, r_log, r_err,
      r_reporter, r_reports, r_db, r_prev, r_stores>>
mainVars == <<cli>>

vars == <<matchVars, configVars, importerVars, runnerVars, mainVars>>

-----------------------------------------------------------------------------
(* Strings *)

Slash == <<"/">>
StarCh == <<"*">>
Csv == <<".", "c", "s", "v">>
Mcf == <<".", "m", "c", "f">>
Foo == <<"f", "o", "o">>
Bar == <<"b", "a", "r">>
PathTo == <<"p", "a", "t", "h", "/", "t", "o", "/">>
To == <<"t", "o", "/">>
Other == <<"o", "t", "h", "e", "r", "/">>

InRoot == <<"i", "n">>

foo_csv == Foo \o Csv
foo1_csv == Foo \o <<"1">> \o Csv
bar_csv == Bar \o Csv
path_to_foo_csv == PathTo \o Foo \o Csv
other_foo_csv == Other \o Foo \o Csv
foo_csv_bak == Foo \o Csv \o <<".", "b">>
a_mcf == <<"a">> \o Mcf

pat_path_to_star_csv == PathTo \o StarCh \o Csv
pat_to_star_csv == To \o StarCh \o Csv
pat_foo_star_csv == Foo \o StarCh \o Csv
pat_bar_star_csv == Bar \o StarCh \o Csv
pat_star_csv == StarCh \o Csv
pat_star_mcf == StarCh \o Mcf
pat_dstar_foo_csv == <<"*", "*", "/">> \o Foo \o Csv
pat_abs_star_csv == Slash \o StarCh \o Csv
pat_abs_foo_csv == Slash \o Foo \o Csv

\* str.count / `in`
Contains(s, ch) == \E i \in 1..Len(s) : s[i] = ch

\* str.startswith with a one-character prefix
StartsWith(s, ch) == Len(s) >= 1 /\ s[1] = ch

FirstIndex(s, ch) == CHOOSE i \in 1..Len(s) : s[i] = ch /\ \A j \in 1..(i - 1) : s[j] # ch

LastIndex(s, ch) == CHOOSE i \in 1..Len(s) : s[i] = ch /\ \A j \in (i + 1)..Len(s) : s[j] # ch

\* str.split("/")
RECURSIVE Split(_)
Split(s) ==
    IF ~Contains(s, "/") THEN <<s>>
    ELSE LET i == FirstIndex(s, "/")
         IN  <<SubSeq(s, 1, i - 1)>> \o Split(SubSeq(s, i + 1, Len(s)))

\* fs.path.basename
basename(path) ==
    IF ~Contains(path, "/") THEN path
    ELSE SubSeq(path, LastIndex(path, "/") + 1, Len(path))

\* fs.path.join(parent_path, path) for a relative path
join(parent, path) == parent \o Slash \o path

-----------------------------------------------------------------------------
(* Python values and call outcomes *)

PyStr(s) == [type |-> "str", v |-> s]
PyList(xs) == [type |-> "list", v |-> xs]

Returned(b) == [exc |-> "none", ret |-> b]
Raised(e) == [exc |-> e, ret |-> FALSE]

-----------------------------------------------------------------------------
(* The regular expressions File.match builds: a sequence of tokens, each a  *)
(* literal character (the "." of a pattern is escaped to a literal),        *)
(* [^\/]* or .*                                                             *)

Lit(ch) == [k |-> "lit", c |-> ch]
NonSlashStar == [k |-> "nonslash*", c |-> ""]
DotStar == [k |-> ".*", c |-> ""]

\* one element of regex_segments
RegexSegment(segment) ==
    IF segment = <<"*", "*">> THEN <<DotStar>>
    ELSE IF segment = <<"*">> THEN <<NonSlashStar>>
    ELSE [i \in 1..Len(segment) |->
            IF segment[i] = "*" THEN NonSlashStar ELSE Lit(segment[i])]

\* (r"\/").join(regex_segments)
RECURSIVE JoinRegex(_)
JoinRegex(segments) ==
    IF Len(segments) = 1 THEN RegexSegment(segments[1])
    ELSE RegexSegment(segments[1]) \o <<Lit("/")>> \o JoinRegex(Tail(segments))

GlobRegex(pattern) == JoinRegex(Split(pattern))

\* the regex matches a substring of s that starts at position i
RECURSIVE MatchAt(_, _, _)
MatchAt(regex, s, i) ==
    IF regex = <<>> THEN TRUE
    ELSE LET t == Head(regex)
         IN  IF t.k = "lit"
             THEN i <= Len(s) /\ s[i] = t.c /\ MatchAt(Tail(regex), s, i + 1)
             ELSE IF t.k = "nonslash*"
             THEN \/ MatchAt(Tail(regex), s, i)
                  \/ i <= Len(s) /\ s[i] # "/" /\ MatchAt(regex, s, i + 1)
             ELSE \/ MatchAt(Tail(regex), s, i)
                  \/ i <= Len(s) /\ MatchAt(regex, s, i + 1)

\* re.match(regex, s) is not None: a match at the beginning of s
re_match(regex, s) == MatchAt(regex, s, 1)

\* re.search(regex, s) is not None: a match anywhere in s
re_search(regex, s) == \E i \in 1..(Len(s) + 1) : MatchAt(regex, s, i)

-----------------------------------------------------------------------------
(* File.match *)

\* the body of File.match for a str pattern
MatchStr(pattern, path) ==
    LET allow_partial_match == ~StartsWith(pattern, "/")
    IN  IF ~Contains(pattern, "*")
        THEN (allow_partial_match /\ basename(path) = pattern) \/ path = pattern
        ELSE LET regex == GlobRegex(pattern)
             IN  (allow_partial_match /\ re_search(regex, path)) \/ re_match(regex, path)

\* File.match comparing the pattern with the base name instead of self.path.
File_match_name(pattern, path) ==
    IF pattern.type # "str" THEN Raised("AttributeError")
    ELSE Returned(MatchStr(pattern.v, basename(path)))

\* File.match(pattern): pattern.startswith raises AttributeError for a value
\* that is not a str (a list has no attribute 'startswith').
File_match(pattern, path) ==
    IF pattern.type # "str" THEN Raised("AttributeError")
    ELSE Returned(MatchStr(pattern.v, path))


-----------------------------------------------------------------------------
(* Config: per-file settings *)

\* A File: its path relative to the store (File.path) and the store's path
\* (File.parent_path).
FileOf(parent, path) == [parent_path |-> parent, path |-> path]
File_name(f) == basename(f.path)
File_full_path(f) == join(f.parent_path, f.path)
File_str(f) == f.path

\* Values of the config document.  A field the settings do not hold is Absent.
Absent == [t |-> "absent", v |-> <<>>]
None == [t |-> "None", v |-> <<>>]
Str(chars) == [t |-> "str", v |-> chars]
EmptyList == [t |-> "list", v |-> <<>>]
EmptyDict == [t |-> "dict", v |-> <<>>]
Enum(member) == [t |-> member, v |-> <<>>]

Fields ==
    { "importType", "format", "columnMappings", "computedVariables", "eventType",
      "idColumn", "entityType", "ignoreColumns", "provenance", "rowEntityType",
      "entityColumns", "observationProperties", "x" }

\* the dict {} and dicts with one or two fields
NoSettings == [f \in Fields |-> Absent]
Setting(field, value) == [f \in Fields |-> IF f = field THEN value ELSE Absent]
Setting2(f1, v1, f2, v2) ==
    [f \in Fields |-> IF f = f1 THEN v1 ELSE IF f = f2 THEN v2 ELSE Absent]

\* truth value of a dict: non-empty
DictTruthy(settings) == \E f \in Fields : settings[f] # Absent

\* truth value of dict.get(field): neither missing (None) nor an empty string
ValueTruthy(value) == value # Absent /\ value # None /\ value # Str(<<>>)

\* dict.get(field, default)
Get(settings, field, default) ==
    IF settings[field] = Absent THEN default ELSE settings[field]

\* self._input_files_config.get(key, {})
InputFilesGet(cfg, key) ==
    IF \E i \in 1..Len(cfg) : cfg[i].key = key
    THEN cfg[CHOOSE i \in 1..Len(cfg) : cfg[i].key = key].settings
    ELSE NoSettings

\* a key of inputFiles, or None
SomeKey(k) == [some |-> TRUE, key |-> k]
NoKey == [some |-> FALSE, key |-> <<>>]

\* _find_first_matching_config_key from the i-th declared key on: every key
\* goes to File.match wrapped in a one-element list
RECURSIVE FindFirstFrom(_, _, _)
FindFirstFrom(cfg, i, f) ==
    IF i > Len(cfg) THEN [exc |-> "none", key |-> NoKey]
    ELSE LET r == File_match(PyList(<<cfg[i].key>>), f.path)
         IN  IF r.exc # "none" THEN [exc |-> r.exc, key |-> NoKey]
             ELSE IF r.ret THEN [exc |-> "none", key |-> SomeKey(cfg[i].key)]
             ELSE FindFirstFrom(cfg, i + 1, f)

_find_first_matching_config_key(cfg, f) == FindFirstFrom(cfg, 1, f)

MemoHas(memo, full_path) == \E e \in memo : e.path = full_path
MemoGet(memo, full_path) == (CHOOSE e \in memo : e.path = full_path).key

\* _per_file_config: outcome, settings returned and the memo afterwards
_per_file_config(cfg, memo, f) ==
    LET input_file_config == InputFilesGet(cfg, File_name(f))
        fp == File_full_path(f)
    IN  IF DictTruthy(input_file_config)
        THEN [exc |-> "none", settings |-> input_file_config, memo |-> memo]
        ELSE LET found == IF MemoHas(memo, fp)
                          THEN [exc |-> "none", key |-> MemoGet(memo, fp)]
                          ELSE _find_first_matching_config_key(cfg, f)
             IN  IF found.exc # "none"
                 THEN [exc |-> found.exc, settings |-> NoSettings, memo |-> memo]
                 ELSE [exc |-> "none",
                       settings |-> IF found.key.some
                                    THEN InputFilesGet(cfg, found.key.key)
                                    ELSE NoSettings,
                       memo |-> IF MemoHas(memo, fp) THEN memo
                                ELSE memo \cup {[path |-> fp, key |-> found.key]}]

\* the values of stats.data.ImportType and stats.data.InputFileFormat
s_observations == <<"o", "b", "s", "e", "r", "v", "a", "t", "i", "o", "n", "s">>
s_events == <<"e", "v", "e", "n", "t", "s">>
s_entities == <<"e", "n", "t", "i", "t", "i", "e", "s">>
s_eVeNtS == <<"e", "V", "e", "N", "t", "S">>
s_variablePerRow ==
    <<"v", "a", "r", "i", "a", "b", "l", "e", "P", "e", "r", "R", "o", "w">>
s_variablePerColumn ==
    <<"v", "a", "r", "i", "a", "b", "l", "e", "P", "e", "r", "C", "o", "l", "u", "m", "n">>
s_INVALID == <<"I", "N", "V", "A", "L", "I", "D">>

ImportType(value) ==
    IF value = s_observations THEN Enum("ImportType.OBSERVATIONS")
    ELSE IF value = s_events THEN Enum("ImportType.EVENTS")
    ELSE Enum("ImportType.ENTITIES")
ImportTypeValues == {s_observations, s_events, s_entities}

InputFileFormat(value) ==
    IF value = s_variablePerRow THEN Enum("InputFileFormat.VARIABLE_PER_ROW")
    ELSE Enum("InputFileFormat.VARIABLE_PER_COLUMN")
InputFileFormatValues == {s_variablePerRow, s_variablePerColumn}

\* outcome of an accessor: the value returned, or the error raised and the
\* file path its message holds
Value(v) == [exc |-> "none", val |-> v, names |-> <<>>]
Error(e, path) == [exc |-> e, val |-> None, names |-> path]

\* Config.import_type on the settings of the file
import_type(settings, f) ==
    LET import_type_str == Get(settings, "importType", None)
    IN  IF ~ValueTruthy(import_type_str) THEN Value(Enum("ImportType.OBSERVATIONS"))
        ELSE IF import_type_str.v \notin ImportTypeValues
        THEN Error("ValueError: Unsupported import type", File_full_path(f))
        ELSE Value(ImportType(import_type_str.v))

\* Config.format on the settings of the file
format(settings, f) ==
    LET format_str == Get(settings, "format", None)
    IN  IF ~ValueTruthy(format_str) THEN Value(None)
        ELSE IF format_str.v \notin InputFileFormatValues
        THEN Error("ValueError: Unsupported format", File_str(f))
        ELSE Value(InputFileFormat(format_str.v))

Accessors ==
    { "import_type", "format", "column_mappings", "computed_variables", "event_type",
      "id_column", "entity_type", "ignore_columns", "provenance_name",
      "row_entity_type", "entity_columns", "observation_properties" }

\* the per-file accessors of Config, applied to the settings of the file
Accessor(acc, settings, f) ==
    CASE acc = "import_type" -> import_type(settings, f)
      [] acc = "format" -> format(settings, f)
      [] acc = "column_mappings" -> Value(Get(settings, "columnMappings", EmptyDict))
      [] acc = "computed_variables" -> Value(Get(settings, "computedVariables", EmptyList))
      [] acc = "event_type" -> Value(Get(settings, "eventType", Str(<<>>)))
      [] acc = "id_column" -> Value(Get(settings, "idColumn", Str(<<>>)))
      [] acc = "entity_type" -> Value(Get(settings, "entityType", Str(<<>>)))
      [] acc = "ignore_columns" -> Value(Get(settings, "ignoreColumns", EmptyList))
      [] acc = "provenance_name" -> Value(Get(settings, "provenance", Str(File_name(f))))
      [] acc = "row_entity_type" -> Value(Get(settings, "rowEntityType", Str(<<>>)))
      [] acc = "entity_columns" -> Value(Get(settings, "entityColumns", EmptyList))
      [] acc = "observation_properties" ->
            Value(Get(settings, "observationProperties", EmptyDict))

\* one per-file query: the accessor calls _per_file_config and reads its field
QueryOutcome(cfg, memo, acc, f) ==
    LET r == _per_file_config(cfg, memo, f)
    IN  [ file |-> f, acc |-> acc, resolved |-> r,
          out |-> IF r.exc # "none" THEN Error(r.exc, <<>>)
                  ELSE Accessor(acc, r.settings, f) ]

NoFile == FileOf(<<>>, <<>>)
NoQuery ==
    [ file |-> NoFile, acc |-> "idle",
      resolved |-> [exc |-> "none", settings |-> NoSettings, memo |-> {}],
      out |-> Value(None) ]

-----------------------------------------------------------------------------
(* McfImporter *)

_ID == "ID"
_DCID == "dcid"
_MAX_CHARS == 65535

\* A str value of an MCF record: what it says and its len().  The importer
\* reads nothing else of a value.
Text(s, n) == [s |-> s, len |-> n]
Unset == [s |-> "", len |-> 0]

\* a parser triple [subject_id, predicate, value, value_type]
ParserTriple(subject_id, predicate, value, value_type) ==
    [subject_id |-> subject_id, predicate |-> predicate, value |-> value,
     value_type |-> value_type]

\* stats.data.Triple(subject_id, predicate, object_id=..., object_value=...)
Triple(subject_id, predicate, object_id, object_value) ==
    [subject_id |-> subject_id, predicate |-> predicate, object_id |-> object_id,
     object_value |-> object_value]

\* exceptions: what was raised, and the node and the property its message names
NoError == [kind |-> "none", node |-> "", property |-> ""]
Exc(kind, node, property) == [kind |-> kind, node |-> node, property |-> property]

\* local2dcid after pass 1: for each subject with dcid records, the value of
\* the last one
local2dcid(records) ==
    [ s \in {records[i].subject_id : i \in {j \in 1..Len(records) : records[j].predicate = _DCID}} |->
        LET last == CHOOSE i \in 1..Len(records) :
                       /\ records[i].predicate = _DCID /\ records[i].subject_id = s
                       /\ \A j \in (i + 1)..Len(records) :
                             ~(records[j].predicate = _DCID /\ records[j].subject_id = s)
        IN  records[last].value.s ]

\* the buffered records of pass 1
parser_triples(records) ==
    LET NotDcid(r) == r.predicate # _DCID
    IN  SelectSeq(records, NotDcid)

\* A _to_triple that stores every value as a literal, whatever its type.
_to_triple_literal(parser_triple, l2d) ==
    IF parser_triple.value.len > _MAX_CHARS
    THEN [exc |-> Exc("ValueError: too long", parser_triple.subject_id, parser_triple.predicate),
          triple |-> Triple("", "", Unset, Unset)]
    ELSE IF parser_triple.subject_id \notin DOMAIN l2d
    THEN [exc |-> Exc("ValueError: dcid not specified", parser_triple.subject_id, ""),
          triple |-> Triple("", "", Unset, Unset)]
    ELSE [exc |-> NoError,
          triple |-> Triple(l2d[parser_triple.subject_id], parser_triple.predicate,
                            Unset, parser_triple.value)]

\* _to_triple
_to_triple(parser_triple, l2d) ==
    IF parser_triple.value.len > _MAX_CHARS
    THEN [exc |-> Exc("ValueError: too long", parser_triple.subject_id, parser_triple.predicate),
          triple |-> Triple("", "", Unset, Unset)]
    ELSE IF parser_triple.subject_id \notin DOMAIN l2d
    THEN [exc |-> Exc("ValueError: dcid not specified", parser_triple.subject_id, ""),
          triple |-> Triple("", "", Unset, Unset)]
    ELSE IF parser_triple.value_type = _ID
    THEN [exc |-> NoError,
          triple |-> Triple(l2d[parser_triple.subject_id], parser_triple.predicate,
                            parser_triple.value, Unset)]
    ELSE [exc |-> NoError,
          triple |-> Triple(l2d[parser_triple.subject_id], parser_triple.predicate,
                            Unset, parser_triple.value)]

\* A conversion in one streaming pass: a record is resolved with the dcid
\* records that stand before it.
_mcf_to_triples_streaming(records) ==
    LET idx == {i \in 1..Len(records) : records[i].predicate # _DCID}
        pos(k) == CHOOSE i \in idx : Cardinality({j \in idx : j <= i}) = k
        conv(i) == _to_triple(records[i], local2dcid(SubSeq(records, 1, i)))
        failing == {i \in idx : conv(i).exc # NoError}
    IN  IF failing # {}
        THEN [exc |-> conv(CHOOSE i \in failing : \A j \in failing : i <= j).exc,
              triples |-> <<>>]
        ELSE [exc |-> NoError,
              triples |-> [k \in 1..Cardinality(idx) |-> conv(pos(k)).triple]]

\* McfImporter._mcf_to_triples once the parser has yielded the records: the
\* first record that _to_triple rejects raises, else the list of triples
_mcf_to_triples(records) ==
    LET buffered == parser_triples(records)
        l2d == local2dcid(records)
        converted == [i \in 1..Len(buffered) |-> _to_triple(buffered[i], l2d)]
        failing == {i \in 1..Len(buffered) : converted[i].exc # NoError}
    IN  IF failing # {}
        THEN [exc |-> converted[CHOOSE i \in failing : \A j \in failing : i <= j].exc,
              triples |-> <<>>]
        ELSE [exc |-> NoError,
              triples |-> [i \in 1..Len(buffered) |-> converted[i].triple]]

Event(ev, err) == [ev |-> ev, err |-> err]

-----------------------------------------------------------------------------
(* Runner: classification and ordering of the input files *)

\* the characters of the sample names, in code-point order
Alphabet ==
    << "*", ".", "/", "1", "N", "S", "V", "a", "b", "c", "e", "f", "h", "i", "j", "m",
       "n", "o", "p", "r", "s", "t", "v" >>

Code(ch) == CHOOSE i \in 1..Len(Alphabet) : Alphabet[i] = ch

\* s < t for Python str
RECURSIVE StrLess(_, _)
StrLess(s, t) ==
    IF t = <<>> THEN FALSE
    ELSE IF s = <<>> THEN TRUE
    ELSE IF Head(s) = Head(t) THEN StrLess(Tail(s), Tail(t))
    ELSE Code(Head(s)) < Code(Head(t))

\* list.sort(key=lambda f: f.name()): stable, ascending by base name
RECURSIVE SortByName(_)
SortByName(files) ==
    IF files = <<>> THEN <<>>
    ELSE LET front == SortByName(SubSeq(files, 1, Len(files) - 1))
             f == files[Len(files)]
             after == {j \in 1..Len(front) : StrLess(File_name(f), File_name(front[j]))}
             k == IF after = {} THEN Len(front) + 1
                  ELSE CHOOSE j \in after : \A l \in after : j <= l
         IN  SubSeq(front, 1, k - 1) \o <<f>> \o SubSeq(front, k, Len(front))

\* _check_if_special_file, from the k-th special file type on
RECURSIVE CheckSpecialFrom(_, _, _, _)
CheckSpecialFrom(k, f, names, found) ==
    IF k > Len(names) THEN [exc |-> "none", found |-> found]
    ELSE IF names[k].type \in found THEN CheckSpecialFrom(k + 1, f, names, found)
    ELSE LET r == File_match(PyList(<<names[k].name>>), f.path)
         IN  IF r.exc # "none" THEN [exc |-> r.exc, found |-> found]
             ELSE CheckSpecialFrom(k + 1, f, names,
                                   IF r.ret THEN found \cup {names[k].type} ELSE found)

_check_if_special_file(f, names, found) == CheckSpecialFrom(1, f, names, found)

\* the loop of _run_all_data_imports that fills input_csv_files and
\* input_mcf_files, from the i-th input file on
RECURSIVE ClassifyFrom(_, _, _, _, _, _)
ClassifyFrom(files, i, names, found, csv, mcf) ==
    IF i > Len(files) THEN [exc |-> "none", found |-> found, csv |-> csv, mcf |-> mcf]
    ELSE LET sp == _check_if_special_file(files[i], names, found)
             is_csv == File_match(PyList(<<pat_star_csv>>), files[i].path)
             is_mcf == File_match(PyList(<<pat_star_mcf>>), files[i].path)
         IN  IF sp.exc # "none"
             THEN [exc |-> sp.exc, found |-> found, csv |-> csv, mcf |-> mcf]
             ELSE IF is_csv.exc # "none"
             THEN [exc |-> is_csv.exc, found |-> sp.found, csv |-> csv, mcf |-> mcf]
             ELSE IF is_mcf.exc # "none"
             THEN [exc |-> is_mcf.exc, found |-> sp.found, csv |-> csv, mcf |-> mcf]
             ELSE ClassifyFrom(files, i + 1, names, sp.found,
                               IF is_csv.ret THEN Append(csv, files[i]) ELSE csv,
                               IF is_mcf.ret THEN Append(mcf, files[i]) ELSE mcf)

\* classification, then the two sorts
ClassifyAndSort(files, names, found) ==
    LET c == ClassifyFrom(files, 1, names, found, <<>>, <<>>)
    IN  [exc |-> c.exc, found |-> c.found,
         csv |-> SortByName(c.csv), mcf |-> SortByName(c.mcf)]

\* a step of run() and how it ended
Step(step, ok) == [step |-> step, ok |-> ok]

\* a run-level report to the ImportReporter
Report(kind, files, error) == [kind |-> kind, files |-> files, error |-> error]

\* The output store: the triples and the import history of the open
\* transaction, and what has been committed.
EmptyStore == [triples |-> <<>>, history |-> <<>>]
NoDb == [data |-> EmptyStore, committed |-> EmptyStore]

\* create_and_update_db: the transaction starts from what is committed
Db_open(db) == [db EXCEPT !.data = db.committed]

\* db.maybe_clear_before_import(): the triples go, the import history stays
maybe_clear_before_import(db) == [db EXCEPT !.data.triples = <<>>]

\* db.insert_triples(triples): appends
insert_triples(db, triples) == [db EXCEPT !.data.triples = Append(@, triples)]

\* db.insert_import_info(status)
insert_import_info(db, status) == [db EXCEPT !.data.history = Append(@, status)]

\* db.commit_and_close(): the one durability boundary
commit_and_close(db) == [db EXCEPT !.committed = db.data]

\* what a step of run() that returned did to the store
DbEffect(step, db) ==
    CASE step = "create_and_update_db" -> Db_open(db)
      [] step = "maybe_clear_before_import" -> maybe_clear_before_import(db)
      [] step = "insert_triples(nodes)" -> insert_triples(db, "nodes")
      [] step = "insert_triples(svg)" -> insert_triples(db, "svg")
      [] step = "insert_import_info(SUCCESS)" -> insert_import_info(db, "SUCCESS")
      [] step = "commit_and_close" -> commit_and_close(db)
      [] OTHER -> db

\* an element of Runner.stores
Store(path) == [path |-> path, closed |-> FALSE]

\* Store.close()
Store_close(store) == [store EXCEPT !.closed = TRUE]

\* Runner.stores when __init__ ends with the given outcome: the input store
\* is appended before the config is read from it, the output store before the
\* report file is opened
StoresAt(outcome) ==
    CASE outcome = "ok" -> {<<Store("input"), Store("output")>>}
      [] outcome \in {"FileNotFoundError", "JSONDecodeError"} -> {<<>>, <<Store("input")>>}
      [] outcome = "OSError" -> {<<>>, <<Store("input")>>, <<Store("input"), Store("output")>>}
      [] OTHER -> {<<>>}

\* The command-line process: FLAGS, where it stands, and how it ended.
NoFlags == [input_path |-> "", output_dir |-> "", entity_type |-> "None",
            ignore_columns |-> <<>>]
NoCli == [pc |-> "idle", flags |-> NoFlags, exit |-> 0, exc |-> "none", ran |-> FALSE]

\* def __init__(self, config_file_path, input_dir_path, output_dir_path, mode=...)
RunnerParameters == {"config_file_path", "input_dir_path", "output_dir_path", "mode"}
RunnerDefaults == {"mode"}

\* the keywords main passes to Runner
MainKeywords == {"input_path", "output_dir", "entity_type", "ignore_columns"}

\* Python binding a call by keyword to a signature: a keyword that is no
\* parameter, or a parameter without default that gets no argument, is a
\* TypeError
Bind(parameters, defaults, keywords) ==
    IF \E k \in keywords : k \notin parameters
    THEN Raised("TypeError")
    ELSE IF \E q \in parameters \ defaults : q \notin keywords
    THEN Raised("TypeError")
    ELSE Returned(TRUE)

\* main under app.run: the Runner is built from the flags and run; run()
\* returns normally whatever it reported, main returns None and the process
\* exits with 0; an exception that leaves main ends the process with 1
main(flags) ==
    LET runner == Bind(RunnerParameters, RunnerDefaults, MainKeywords)
    IN  IF runner.exc # "none"
        THEN [exit |-> 1, exc |-> runner.exc, ran |-> FALSE]
        ELSE [exit |-> 0, exc |-> "none", ran |-> TRUE]

-----------------------------------------------------------------------------
(* Idle values of the parts a specification does not use *)

MatchIdle ==
    /\ m_arg = PyStr(<<>>)
    /\ m_path = <<>>
    /\ m_pc = "idle"
    /\ m_result = Returned(FALSE)

ImporterIdle ==
    /\ i_pc = "idle"
    /\ i_main_dc = FALSE
    /\ i_input_file = NoFile
    /\ i_output_file = NoFile
    /\ i_records = <<>>
    /\ i_log = <<>>
    /\ i_err = NoError
    /\ i_triples = <<>>
    /\ i_db = <<>>
    /\ i_out = <<>>

RunnerIdle ==
    /\ r_pc = "idle"
    /\ r_mode = "customdc"
    /\ r_files = <<>>
    /\ r_special = <<>>
    /\ r_found = {}
    /\ r_gen = FALSE
    /\ r_sv = FALSE
    /\ r_csv = <<>>
    /\ r_mcf = <<>>
    /\ r_log = <<>>
    /\ r_err = NoError
    /\ r_reporter = FALSE
    /\ r_reports = <<>>
    /\ r_db = NoDb
    /\ r_prev = <<>>
    /\ r_stores = <<>>

MainIdle == cli = NoCli

ConfigIdle ==
    /\ c_cfg = <<>>
    /\ c_memo = {}
    /\ c_q = NoQuery

-----------------------------------------------------------------------------
(* File.match on its own: a File with a path, one call of match *)

SamplePaths ==
    { foo_csv, foo1_csv, bar_csv, path_to_foo_csv, other_foo_csv, foo_csv_bak, a_mcf }

SamplePatterns ==
    { foo_csv, bar_csv, path_to_foo_csv,
      pat_path_to_star_csv, pat_to_star_csv, pat_foo_star_csv, pat_bar_star_csv,
      pat_star_csv, pat_star_mcf, pat_dstar_foo_csv, pat_abs_star_csv, pat_abs_foo_csv }

\* what callers hand to match: the pattern, or a one-element list holding it
MatchArgs == {PyStr(p) : p \in SamplePatterns} \cup {PyList(<<p>>) : p \in SamplePatterns}

MatchInit ==
    /\ m_arg \in MatchArgs
    /\ m_path \in SamplePaths
    /\ m_pc = "call"
    /\ m_result = Returned(FALSE)
    /\ ConfigIdle
    /\ ImporterIdle
    /\ RunnerIdle
    /\ MainIdle

MatchCall ==
    /\ m_pc = "call"
    /\ m_result' = File_match(m_arg, m_path)
    /\ m_pc' = "done"
    /\ UNCHANGED <<m_arg, m_path>>
    /\ UNCHANGED <<configVars, importerVars, runnerVars, mainVars>>

MatchNext == MatchCall

SpecMatch == MatchInit /\ [][MatchNext]_vars


-----------------------------------------------------------------------------
(* Claims about File.match *)

RECURSIVE FullMatchAt(_, _, _)
FullMatchAt(regex, s, i) ==
    IF regex = <<>> THEN i = Len(s) + 1
    ELSE LET t == Head(regex)
         IN  IF t.k = "lit"
             THEN i <= Len(s) /\ s[i] = t.c /\ FullMatchAt(Tail(regex), s, i + 1)
             ELSE IF t.k = "nonslash*"
             THEN \/ FullMatchAt(Tail(regex), s, i)
                  \/ i <= Len(s) /\ s[i] # "/" /\ FullMatchAt(regex, s, i + 1)
             ELSE \/ FullMatchAt(Tail(regex), s, i)
                  \/ i <= Len(s) /\ FullMatchAt(regex, s, i + 1)

\* the pattern, with * confined to one path segment, describes all of s
WholeMatch(pattern, s) ==
    IF ~Contains(pattern, "*") THEN s = pattern
    ELSE FullMatchAt(GlobRegex(pattern), s, 1)

\* C4: an unanchored pattern with directory segments selects a file only when
\* the pattern matches the file's whole relative path or its base name alone;
\* a pattern that corresponds only to a trailing part of the path does not
\* select the file (to/*.csv does not select path/to/foo.csv).
C4_NoTrailingPartMatch ==
    (m_pc = "done" /\ m_arg.type = "str" /\ ~StartsWith(m_arg.v, "/")
        /\ Contains(m_arg.v, "/") /\ m_result = Returned(TRUE))
    => (WholeMatch(m_arg.v, m_path) \/ WholeMatch(m_arg.v, basename(m_path)))


-----------------------------------------------------------------------------
(* Config on its own: one Config, any sequence of per-file queries *)

MaxKeys == 2

ConfigFiles ==
    { FileOf(InRoot, foo_csv), FileOf(InRoot, path_to_foo_csv), FileOf(InRoot, foo1_csv) }

SampleKeys == { foo_csv, bar_csv, pat_foo_star_csv, pat_path_to_star_csv }

SampleSettings ==
    { NoSettings,
      Setting("x", Str(<<"y">>)),
      Setting("importType", Str(s_events)),
      Setting("importType", Str(s_eVeNtS)),
      Setting("importType", Str(<<>>)) }

\* inputFiles documents: up to MaxKeys distinct keys, in declaration order
Configs ==
    UNION { { c \in [1..n -> [key : SampleKeys, settings : SampleSettings]] :
                \A i, j \in 1..n : i # j => c[i].key # c[j].key } : n \in 0..MaxKeys }

ConfigInit ==
    /\ c_cfg \in Configs
    /\ c_memo = {}
    /\ c_q = NoQuery
    /\ MatchIdle
    /\ ImporterIdle
    /\ RunnerIdle
    /\ MainIdle

ConfigQuery ==
    \E f \in ConfigFiles, acc \in Accessors :
        LET o == QueryOutcome(c_cfg, c_memo, acc, f)
        IN  /\ c_q' = o
            /\ c_memo' = o.resolved.memo
            /\ UNCHANGED c_cfg
            /\ UNCHANGED <<matchVars, importerVars, runnerVars, mainVars>>

ConfigNext == ConfigQuery

SpecConfig == ConfigInit /\ [][ConfigNext]_vars

-----------------------------------------------------------------------------
(* Claims about the per-file settings *)

Queried == c_q.acc # "idle"

HasExactKey(cfg, f) == \E i \in 1..Len(cfg) : cfg[i].key = File_name(f)

\* the key, read as a pattern, matches the file's path relative to its root
KeyMatches(key, f) == MatchStr(key, f.path)

SomeKeyMatches(cfg, f) == \E i \in 1..Len(cfg) : KeyMatches(cfg[i].key, f)

FirstMatching(cfg, f) ==
    CHOOSE i \in 1..Len(cfg) :
        KeyMatches(cfg[i].key, f) /\ \A j \in 1..(i - 1) : ~KeyMatches(cfg[j].key, f)

\* the settings of a file as the resolution rule states them: exact base-name
\* key, else first matching key in declaration order, else none
RuleSettings(cfg, f) ==
    IF HasExactKey(cfg, f) THEN InputFilesGet(cfg, File_name(f))
    ELSE IF SomeKeyMatches(cfg, f) THEN cfg[FirstMatching(cfg, f)].settings
    ELSE NoSettings

\* C1: if inputFiles has a key equal to the file's base name, _per_file_config
\* returns the settings stored under that key, whatever they are and whatever
\* other keys are declared.
C1_ExactKeyWins ==
    (Queried /\ HasExactKey(c_cfg, c_q.file))
    => /\ c_q.resolved.exc = "none"
       /\ c_q.resolved.settings = InputFilesGet(c_cfg, File_name(c_q.file))

\* C2: with no key equal to the base name, the settings returned are those of
\* the first key in declaration order whose pattern matches the relative path.
C2_FirstMatchingKey ==
    (Queried /\ ~HasExactKey(c_cfg, c_q.file) /\ SomeKeyMatches(c_cfg, c_q.file))
    => /\ c_q.resolved.exc = "none"
       /\ c_q.resolved.settings = c_cfg[FirstMatching(c_cfg, c_q.file)].settings

DefaultOf(acc, f) ==
    CASE acc \in {"entity_type", "event_type", "id_column", "row_entity_type"} -> Str(<<>>)
      [] acc \in {"ignore_columns", "entity_columns", "computed_variables"} -> EmptyList
      [] acc \in {"column_mappings", "observation_properties"} -> EmptyDict
      [] acc = "format" -> None
      [] acc = "import_type" -> Enum("ImportType.OBSERVATIONS")
      [] acc = "provenance_name" -> Str(File_name(f))

\* C5: for a file that no key matches, exactly or by pattern, the settings are
\* empty and every per-file accessor returns its default.
C5_NoMatchDefaults ==
    (Queried /\ ~HasExactKey(c_cfg, c_q.file) /\ ~SomeKeyMatches(c_cfg, c_q.file))
    => /\ c_q.resolved.exc = "none"
       /\ c_q.resolved.settings = NoSettings
       /\ c_q.out = Value(DefaultOf(c_q.acc, c_q.file))

\* C6: import_type returns OBSERVATIONS when the file's settings have no
\* importType, the enum member for a recognised value, and raises an error
\* naming the file for every other string.
C6_ImportType ==
    (Queried /\ c_q.acc = "import_type")
    => LET v == RuleSettings(c_cfg, c_q.file)["importType"]
       IN  /\ v = Absent => c_q.out = Value(Enum("ImportType.OBSERVATIONS"))
           /\ (v # Absent /\ v.v \in ImportTypeValues) => c_q.out = Value(ImportType(v.v))
           /\ (v # Absent /\ v.v \notin ImportTypeValues)
                => /\ c_q.out.exc = "ValueError: Unsupported import type"
                   /\ c_q.out.names = File_full_path(c_q.file)


-----------------------------------------------------------------------------
(* McfImporter.do_import on its own: one importer, one call of do_import *)

MaxRecords == 2

LocalIds == {"l1", "l2"}
Predicates == {_DCID, "name"}
ValueTypes == {_ID, "TEXT"}
Texts == {Text("d1", 2), Text("atmax", _MAX_CHARS), Text("over", _MAX_CHARS + 1)}

ParserTriples ==
    { ParserTriple(s, p, v, t) : s \in LocalIds, p \in Predicates, v \in Texts, t \in ValueTypes }

\* the contents of an MCF file, as the records the parser yields
McfFiles == UNION { [1..n -> ParserTriples] : n \in 0..MaxRecords }

\* the MCF files handed to the importer, by their path in the input root
McfInputFiles == {FileOf(InRoot, a_mcf), FileOf(InRoot, PathTo \o a_mcf)}

OutRoot == <<"o", "u", "t">>

\* Dir.open_file: the File of that path in the directory
Dir_open_file(dir, path) == FileOf(dir, path)

\* Runner._create_mcf_importer: the output file has the input file's path,
\* in the output directory
_create_mcf_importer(input_file, output_dir, is_main_dc) ==
    [ input_file |-> input_file,
      output_file |-> Dir_open_file(output_dir, input_file.path),
      is_main_dc |-> is_main_dc ]

McfInit ==
    /\ i_pc = "start"
    /\ \E f \in McfInputFiles, is_main_dc \in BOOLEAN :
          LET importer == _create_mcf_importer(f, OutRoot, is_main_dc)
          IN  /\ i_input_file = importer.input_file
              /\ i_output_file = importer.output_file
              /\ i_main_dc = importer.is_main_dc
    /\ i_records \in McfFiles
    /\ i_log = <<>>
    /\ i_err = NoError
    /\ i_triples = <<>>
    /\ i_db = <<>>
    /\ i_out = <<>>
    /\ MatchIdle
    /\ ConfigIdle
    /\ RunnerIdle
    /\ MainIdle

\* self.reporter.report_started()
McfReportStarted ==
    /\ i_pc = "start"
    /\ i_log' = Append(i_log, Event("started", NoError))
    /\ i_pc' = "try"
    /\ UNCHANGED <<i_main_dc, i_input_file, i_output_file, i_records, i_err, i_triples, i_db, i_out>>
    /\ UNCHANGED <<matchVars, configVars, runnerVars, mainVars>>

\* A main-DC branch that, after the copy, goes on to convert the file and
\* insert its triples like the custom-DC branch.
McfCopy_falls_through ==
    /\ i_pc = "try"
    /\ i_main_dc
    /\ LET r == _mcf_to_triples(i_records)
       IN  /\ i_log' = i_log \o <<Event("read", NoError), Event("write", NoError),
                                  Event("insert", NoError)>>
           /\ i_out' = Append(i_out, [file |-> i_output_file, content |-> i_records])
           /\ i_err' = r.exc
           /\ i_triples' = r.triples
           /\ i_db' = IF r.exc = NoError THEN Append(i_db, r.triples) ELSE i_db
           /\ i_pc' = IF r.exc = NoError THEN "report_success" ELSE "except"
    /\ UNCHANGED <<i_main_dc, i_input_file, i_output_file, i_records>>
    /\ UNCHANGED <<matchVars, configVars, runnerVars, mainVars>>

\* main DC: self.output_file.write(self.input_file.read()); either call may raise
McfCopy ==
    /\ i_pc = "try"
    /\ i_main_dc
    /\ \E outcome \in {"ok", "read_error", "write_error"} :
          /\ i_log' = IF outcome = "read_error"
                      THEN Append(i_log, Event("read", NoError))
                      ELSE i_log \o <<Event("read", NoError), Event("write", NoError)>>
          /\ i_out' = IF outcome = "ok"
                      THEN Append(i_out, [file |-> i_output_file, content |-> i_records])
                      ELSE i_out
          /\ i_err' = IF outcome = "ok" THEN i_err ELSE Exc("IOError", outcome, "")
          /\ i_pc' = IF outcome = "ok" THEN "report_success" ELSE "except"
    /\ UNCHANGED <<i_main_dc, i_input_file, i_output_file, i_records, i_triples, i_db>>
    /\ UNCHANGED <<matchVars, configVars, runnerVars, mainVars>>

\* A conversion that hands each triple to the store as it is made, so that
\* the triples made before a failing record are inserted.
McfToTriples_streaming ==
    /\ i_pc = "try"
    /\ ~i_main_dc
    /\ \E outcome \in {"ok", "read_error", "parse_error"} :
          LET r == _mcf_to_triples(i_records)
              e == IF outcome # "ok" THEN Exc("IOError", outcome, "") ELSE r.exc
              buffered == parser_triples(i_records)
              converted == [i \in 1..Len(buffered) |->
                               _to_triple(buffered[i], local2dcid(i_records))]
              made == {n \in 0..Len(buffered) : \A i \in 1..n : converted[i].exc = NoError}
              last == CHOOSE n \in made : \A q \in made : q <= n
              done == [i \in 1..last |-> converted[i].triple]
              partial == outcome = "ok" /\ e # NoError /\ last > 0
          IN  /\ i_log' = IF partial
                          THEN i_log \o <<Event("read", NoError), Event("insert", NoError)>>
                          ELSE Append(i_log, Event("read", NoError))
              /\ i_db' = IF partial THEN Append(i_db, done) ELSE i_db
              /\ i_err' = e
              /\ i_triples' = IF e = NoError THEN r.triples ELSE i_triples
              /\ i_pc' = IF e = NoError THEN "insert" ELSE "except"
    /\ UNCHANGED <<i_main_dc, i_input_file, i_output_file, i_records, i_out>>
    /\ UNCHANGED <<matchVars, configVars, runnerVars, mainVars>>

\* custom DC: triples = self._mcf_to_triples(); reading and parsing may raise
McfToTriples ==
    /\ i_pc = "try"
    /\ ~i_main_dc
    /\ \E outcome \in {"ok", "read_error", "parse_error"} :
          LET r == _mcf_to_triples(i_records)
              e == IF outcome # "ok" THEN Exc("IOError", outcome, "") ELSE r.exc
          IN  /\ i_log' = Append(i_log, Event("read", NoError))
              /\ i_err' = e
              /\ i_triples' = IF e = NoError THEN r.triples ELSE i_triples
              /\ i_pc' = IF e = NoError THEN "insert" ELSE "except"
    /\ UNCHANGED <<i_main_dc, i_input_file, i_output_file, i_records, i_db, i_out>>
    /\ UNCHANGED <<matchVars, configVars, runnerVars, mainVars>>

\* self.db.insert_triples(triples), which may raise
McfInsert ==
    /\ i_pc = "insert"
    /\ \E ok \in BOOLEAN :
          /\ i_log' = Append(i_log, Event("insert", NoError))
          /\ i_db' = IF ok THEN Append(i_db, i_triples) ELSE i_db
          /\ i_err' = IF ok THEN i_err ELSE Exc("DbError", "", "")
          /\ i_pc' = IF ok THEN "report_success" ELSE "except"
    /\ UNCHANGED <<i_main_dc, i_input_file, i_output_file, i_records, i_triples, i_out>>
    /\ UNCHANGED <<matchVars, configVars, runnerVars, mainVars>>

\* self.reporter.report_success()
McfReportSuccess ==
    /\ i_pc = "report_success"
    /\ i_log' = Append(i_log, Event("success", NoError))
    /\ i_pc' = "returned"
    /\ UNCHANGED <<i_main_dc, i_input_file, i_output_file, i_records, i_err, i_triples, i_db, i_out>>
    /\ UNCHANGED <<matchVars, configVars, runnerVars, mainVars>>

\* An except clause that goes on to re-raise without reporting.
McfReportFailure_silent ==
    /\ i_pc = "except"
    /\ i_pc' = "reraise"
    /\ UNCHANGED <<i_main_dc, i_input_file, i_output_file, i_records, i_log, i_err, i_triples, i_db, i_out>>
    /\ UNCHANGED <<matchVars, configVars, runnerVars, mainVars>>

\* except Exception as e: self.reporter.report_failure(str(e))
McfReportFailure ==
    /\ i_pc = "except"
    /\ i_log' = Append(i_log, Event("failure", i_err))
    /\ i_pc' = "reraise"
    /\ UNCHANGED <<i_main_dc, i_input_file, i_output_file, i_records, i_err, i_triples, i_db, i_out>>
    /\ UNCHANGED <<matchVars, configVars, runnerVars, mainVars>>

\* raise e
McfRaise ==
    /\ i_pc = "reraise"
    /\ i_pc' = "raised"
    /\ UNCHANGED <<i_main_dc, i_input_file, i_output_file, i_records, i_log, i_err, i_triples, i_db, i_out>>
    /\ UNCHANGED <<matchVars, configVars, runnerVars, mainVars>>

McfNext ==
    \/ McfReportStarted
    \/ McfCopy
    \/ McfToTriples
    \/ McfInsert
    \/ McfReportSuccess
    \/ McfReportFailure
    \/ McfRaise

SpecMcf == McfInit /\ [][McfNext]_vars

-----------------------------------------------------------------------------
(* Claims about McfImporter.do_import *)

Positions(log, ev) == {i \in 1..Len(log) : log[i].ev = ev}
Count(log, ev) == Cardinality(Positions(log, ev))

\* C7: the importer reports "started" before it reads the file, then reports
\* exactly one of "success" and "failure" (with the error), once, on every
\* path; a reported failure is followed by raising the same error.
C7_ReportsOnce ==
    /\ \A i \in Positions(i_log, "read") : \E j \in Positions(i_log, "started") : j < i
    /\ Count(i_log, "started") <= 1
    /\ Count(i_log, "success") + Count(i_log, "failure") <= 1
    /\ i_pc \in {"returned", "raised"}
          => Count(i_log, "success") + Count(i_log, "failure") = 1
    /\ i_pc = "returned" => (Count(i_log, "success") = 1 /\ i_err = NoError)
    /\ i_pc = "raised"
          => /\ i_err # NoError
             /\ i_log[Len(i_log)] = Event("failure", i_err)
    /\ Count(i_log, "failure") = 1 => i_pc \in {"reraise", "raised"}

C7_Witness ==
    /\ i_pc = "raised"
    /\ Count(i_log, "failure") = 1
    /\ Count(i_log, "read") = 1
    /\ i_err.kind = "ValueError: dcid not specified"


-----------------------------------------------------------------------------
(* Runner: construction, then one call of run() *)

MaxFiles == 2

a_csv == <<"a">> \o Csv
vs_json == <<"v", "s", ".", "j">>

RunnerPaths == {a_csv, a_mcf, foo_csv}

\* what the input stores enumerate: up to MaxFiles distinct files, in any order
RunnerInputs ==
    UNION { { fs \in [1..n -> {FileOf(InRoot, p) : p \in RunnerPaths}] :
                \A i, j \in 1..n : i # j => fs[i] # fs[j] } : n \in 0..MaxFiles }

RunModes == {"customdc", "schemaupdate", "maindc"}

ConstructOutcomes ==
    { "ok", "AssertionError", "FileNotFoundError", "JSONDecodeError",
      "ValueError: Data Download URLs not found in config.", "OSError" }

RunnerInit ==
    /\ r_pc = "new"
    /\ r_mode \in RunModes \cup {"other"}
    /\ r_files \in RunnerInputs
    /\ r_special \in {<<>>, <<[type |-> "verticalSpecsFile", name |-> vs_json]>>}
    /\ r_found = {}
    /\ r_gen \in BOOLEAN
    /\ r_sv \in BOOLEAN
    /\ r_csv = <<>>
    /\ r_mcf = <<>>
    /\ r_log = <<>>
    /\ r_err = NoError
    /\ r_reporter = FALSE
    /\ r_reports = <<>>
    /\ r_db = NoDb
    /\ r_prev = <<>>
    /\ r_stores = <<>>
    /\ MatchIdle
    /\ ConfigIdle
    /\ ImporterIdle
    /\ MainIdle

RunnerFrame == UNCHANGED <<r_mode, r_files, r_special, r_gen, r_sv, r_prev, r_stores>>
OthersIdle == UNCHANGED <<matchVars, configVars, importerVars, mainVars>>

\* Runner.__init__: the asserts, the config and the stores are handled before
\* the ImportReporter is created; any of them may raise
Construct ==
    /\ r_pc = "new"
    /\ \E outcome \in ConstructOutcomes :
          /\ r_pc' = IF outcome = "ok" THEN "constructed" ELSE "init_failed"
          /\ r_err' = IF outcome = "ok" THEN r_err ELSE Exc(outcome, "", "")
          /\ r_reporter' = (outcome = "ok")
          /\ r_stores' \in StoresAt(outcome)
    /\ UNCHANGED <<r_found, r_csv, r_mcf, r_log, r_reports, r_db>>
    /\ UNCHANGED <<r_mode, r_files, r_special, r_gen, r_sv, r_prev>> /\ OthersIdle

\* a call inside the try block of run() that returns or raises
RunStep(from, step, to) ==
    /\ r_pc = from
    /\ \E ok \in BOOLEAN :
          /\ r_log' = Append(r_log, Step(step, ok))
          /\ r_pc' = IF ok THEN to ELSE "except"
          /\ r_err' = IF ok THEN r_err ELSE Exc("Error", step, "")
          /\ r_db' = IF ok THEN DbEffect(step, r_db) ELSE r_db
    /\ UNCHANGED <<r_found, r_csv, r_mcf, r_reporter, r_reports>>
    /\ RunnerFrame /\ OthersIdle

\* self.db = create_and_update_db(self._get_db_config())
RunCreateDb == RunStep("constructed", "create_and_update_db", "dispatch")

\* A branch on self.mode that sends schema update through the imports too.
RunDispatch_imports ==
    /\ r_pc = "dispatch"
    /\ r_pc' = IF r_mode \in RunModes THEN "clear" ELSE "except"
    /\ r_err' = IF r_mode \in RunModes THEN r_err
                ELSE Exc("ValueError: Unsupported mode", "", "")
    /\ r_log' = IF r_mode \in RunModes THEN r_log ELSE Append(r_log, Step("dispatch", FALSE))
    /\ UNCHANGED <<r_found, r_csv, r_mcf, r_reporter, r_reports, r_db>>
    /\ RunnerFrame /\ OthersIdle

\* the branch on self.mode
RunDispatch ==
    /\ r_pc = "dispatch"
    /\ r_pc' = IF r_mode = "schemaupdate" THEN "commit"
               ELSE IF r_mode \in {"customdc", "maindc"} THEN "clear"
               ELSE "except"
    /\ r_err' = IF r_mode \in RunModes THEN r_err
                ELSE Exc("ValueError: Unsupported mode", "", "")
    /\ r_log' = IF r_mode \in RunModes THEN r_log ELSE Append(r_log, Step("dispatch", FALSE))
    /\ UNCHANGED <<r_found, r_csv, r_mcf, r_reporter, r_reports, r_db>>
    /\ RunnerFrame /\ OthersIdle

\* A run that goes on to the imports with the store as the last run left it.
RunClear_skipped == RunStep("clear", "clear_skipped", "enumerate")

\* self.db.maybe_clear_before_import()
RunClear == RunStep("clear", "maybe_clear_before_import", "enumerate")

\* _run_all_data_imports that goes on after a file raised, with the files
\* classified so far.
RunEnumerate_skip ==
    /\ r_pc = "enumerate"
    /\ LET c == ClassifyAndSort(r_files, r_special, r_found)
       IN  /\ r_log' = Append(r_log, Step("_run_all_data_imports", c.exc = "none"))
           /\ r_err' = IF c.exc = "none" THEN r_err ELSE Exc(c.exc, "", "")
           /\ r_pc' = "report_started"
           /\ r_found' = c.found
           /\ r_csv' = c.csv
           /\ r_mcf' = c.mcf
    /\ UNCHANGED <<r_reporter, r_reports, r_db>>
    /\ RunnerFrame /\ OthersIdle

\* _run_all_data_imports up to the sorts: enumeration of the input stores
\* (which may raise), special files, classification, sorting
RunEnumerate ==
    /\ r_pc = "enumerate"
    /\ \E listed \in BOOLEAN :
          LET c == ClassifyAndSort(r_files, r_special, r_found)
              e == IF ~listed THEN Exc("IOError", "all_files", "")
                   ELSE IF c.exc # "none" THEN Exc(c.exc, "", "")
                   ELSE NoError
          IN  /\ r_log' = Append(r_log, Step("_run_all_data_imports", e = NoError))
              /\ r_err' = IF e = NoError THEN r_err ELSE e
              /\ r_pc' = IF e = NoError THEN "report_started" ELSE "except"
              /\ r_found' = IF listed THEN c.found ELSE r_found
              /\ r_csv' = IF e = NoError THEN c.csv ELSE r_csv
              /\ r_mcf' = IF e = NoError THEN c.mcf ELSE r_mcf
    /\ UNCHANGED <<r_reporter, r_reports, r_db>>
    /\ RunnerFrame /\ OthersIdle

\* self.reporter.report_started(import_files=input_csv_files + input_mcf_files)
RunReportStarted ==
    /\ r_pc = "report_started"
    /\ r_reports' = Append(r_reports, Report("started", r_csv \o r_mcf, NoError))
    /\ r_pc' = "imports"
    /\ UNCHANGED <<r_found, r_csv, r_mcf, r_log, r_err, r_reporter, r_db>>
    /\ RunnerFrame /\ OthersIdle

\* the two import loops.  Both lists are empty whenever run() gets here: the
\* classification of a non-empty list of files raises.
RunImports ==
    /\ r_pc = "imports"
    /\ r_csv = <<>>
    /\ r_mcf = <<>>
    /\ r_pc' = "node_triples"
    /\ UNCHANGED <<r_found, r_csv, r_mcf, r_log, r_err, r_reporter, r_reports, r_db>>
    /\ RunnerFrame /\ OthersIdle

\* triples = self.nodes.triples(); self.db.insert_triples(triples)
RunInsertNodeTriples == RunStep("node_triples", "insert_triples(nodes)", "hierarchy")

\* _generate_svg_hierarchy: returns at once for main DC or when the config
\* does not enable it; else selects the SV triples, logs when there are none
\* and, without returning, generates and inserts
RunHierarchy ==
    /\ r_pc = "hierarchy"
    /\ IF r_mode = "maindc" \/ ~r_gen
       THEN /\ r_log' = Append(r_log, Step("hierarchy_skipped", TRUE))
            /\ r_pc' = "cache"
            /\ r_err' = r_err
            /\ r_db' = r_db
       ELSE \E ok \in BOOLEAN :
               /\ r_log' = r_log \o <<Step("select_sv_triples", TRUE)>>
                                 \o (IF r_sv THEN <<>> ELSE <<Step("log_no_sv_triples", TRUE)>>)
                                 \o <<Step("generate_hierarchy", ok)>>
                                 \o (IF ok THEN <<Step("insert_triples(svg)", TRUE)>> ELSE <<>>)
               /\ r_pc' = IF ok THEN "cache" ELSE "except"
               /\ r_err' = IF ok THEN r_err ELSE Exc("Error", "generate_hierarchy", "")
               /\ r_db' = IF ok THEN DbEffect("insert_triples(svg)", r_db) ELSE r_db
    /\ UNCHANGED <<r_found, r_csv, r_mcf, r_reporter, r_reports>>
    /\ RunnerFrame /\ OthersIdle

\* A run that goes from the cache to the import status, without the sentences.
RunCache_then_status == RunStep("cache", "generate_svg_cache", "import_info")

\* self._generate_svg_cache()
RunCache == RunStep("cache", "generate_svg_cache", "nl")

\* self._generate_nl_sentences()
RunNl == RunStep("nl", "generate_nl_sentences", "import_info")

\* self.db.insert_import_info(status=ImportStatus.SUCCESS)
RunInsertImportInfo == RunStep("import_info", "insert_import_info(SUCCESS)", "commit")

\* self.db.commit_and_close()
RunCommit == RunStep("commit", "commit_and_close", "report_done")

\* self.reporter.report_done()
RunReportDone ==
    /\ r_pc = "report_done"
    /\ \E ok \in BOOLEAN :
          /\ r_log' = Append(r_log, Step("report_done", ok))
          /\ r_reports' = IF ok THEN Append(r_reports, Report("done", <<>>, NoError))
                          ELSE r_reports
          /\ r_pc' = IF ok THEN "returned" ELSE "except"
          /\ r_err' = IF ok THEN r_err ELSE Exc("Error", "report_done", "")
    /\ UNCHANGED <<r_found, r_csv, r_mcf, r_reporter, r_db>>
    /\ RunnerFrame /\ OthersIdle

\* An except clause that commits and closes the store before it reports.
RunReportFailure_commits ==
    /\ r_pc = "except"
    /\ r_log' = r_log \o <<Step("commit_and_close", TRUE), Step("report_failure", TRUE)>>
    /\ r_reports' = Append(r_reports, Report("failure", <<>>, r_err))
    /\ r_pc' = "returned"
    /\ r_db' = commit_and_close(r_db)
    /\ UNCHANGED <<r_found, r_csv, r_mcf, r_err, r_reporter>>
    /\ RunnerFrame /\ OthersIdle

\* except Exception as e: self.reporter.report_failure(error=str(e))
RunReportFailure ==
    /\ r_pc = "except"
    /\ r_log' = Append(r_log, Step("report_failure", TRUE))
    /\ r_reports' = Append(r_reports, Report("failure", <<>>, r_err))
    /\ r_pc' = "returned"
    /\ UNCHANGED <<r_found, r_csv, r_mcf, r_err, r_reporter, r_db>>
    /\ RunnerFrame /\ OthersIdle

\* The pipeline is run a second time, by a new Runner, with the same
\* configuration and input files and on the same output store.
RunAgain ==
    /\ r_pc = "returned"
    /\ r_prev = <<>>
    /\ r_prev' = <<[log |-> r_log, committed |-> r_db.committed]>>
    /\ r_pc' = "new"
    /\ r_found' = {}
    /\ r_csv' = <<>>
    /\ r_mcf' = <<>>
    /\ r_log' = <<>>
    /\ r_err' = NoError
    /\ r_reporter' = FALSE
    /\ r_reports' = <<>>
    /\ r_stores' = <<>>
    /\ UNCHANGED <<r_db, r_mode, r_files, r_special, r_gen, r_sv>>
    /\ OthersIdle

RunnerNext ==
    \/ RunAgain
    \/ Construct
    \/ RunCreateDb
    \/ RunDispatch
    \/ RunClear
    \/ RunEnumerate
    \/ RunReportStarted
    \/ RunImports
    \/ RunInsertNodeTriples
    \/ RunHierarchy
    \/ RunCache
    \/ RunNl
    \/ RunInsertImportInfo
    \/ RunCommit
    \/ RunReportDone
    \/ RunReportFailure

SpecRunner == RunnerInit /\ [][RunnerNext]_vars


-----------------------------------------------------------------------------
(* Runner.run: claims *)

Raisings == {i \in 1..Len(r_log) : ~r_log[i].ok}
Reported(kind) == {i \in 1..Len(r_reports) : r_reports[i].kind = kind}
Ran(step) == \E i \in 1..Len(r_log) : r_log[i].step = step

PostImportSteps ==
    { "insert_triples(nodes)", "hierarchy_skipped", "select_sv_triples", "log_no_sv_triples",
      "generate_hierarchy", "insert_triples(svg)", "generate_svg_cache",
      "generate_nl_sentences", "insert_import_info(SUCCESS)" }

DataImportFailed == Step("_run_all_data_imports", FALSE) \in {r_log[i] : i \in 1..Len(r_log)}

C9_FailureReportedOnceAndStops ==
    /\ \A i \in Raisings : \A j \in (i + 1)..Len(r_log) : r_log[j].step = "report_failure"
    /\ Cardinality(Reported("failure")) <= 1
    /\ Cardinality(Reported("done")) <= 1
    /\ Reported("failure") = {} \/ Reported("done") = {}
    /\ \A i \in Reported("failure") :
          /\ Raisings # {}
          /\ r_reports[i].error = r_err
          /\ r_err # NoError
    /\ r_pc = "returned" =>
          /\ Cardinality(Reported("failure")) + Cardinality(Reported("done")) = 1
          /\ Raisings # {} <=> Reported("failure") # {}

\* commit_and_close raised on the CUSTOM_DC path and run() has returned with
\* the failure reported
C9_Witness ==
    /\ r_pc = "returned"
    /\ r_mode = "customdc"
    /\ Step("commit_and_close", FALSE) \in {r_log[i] : i \in 1..Len(r_log)}
    /\ Reported("failure") # {}

ProcessEnded == r_pc \in {"init_failed", "returned"}

\* C10: when the process has ended after a failure, whether the failure
\* happened while the Runner was constructed or inside run(), a report that
\* records the failure exists.
C10_FailureAlwaysReported ==
    (ProcessEnded /\ r_err # NoError) => (r_reporter /\ Reported("failure") # {})

-----------------------------------------------------------------------------
(* Runner.run: the order in which the input files are imported *)

\* what the classification tests of _run_all_data_imports ask of a file
IsCsvFile(f) == MatchStr(pat_star_csv, f.path)
IsMcfFile(f) == MatchStr(pat_star_mcf, f.path)

ImportMode == r_mode \in {"customdc", "maindc"}

\* no call on the store, the file system or the reporter has failed
NoEnvironmentFailure == r_err = NoError \/ r_err.kind = "AttributeError"

\* the files handed to an importer so far, in order: the two loops come
\* between report_started and the insertion of the node triples
ImportedFiles == IF Ran("insert_triples(nodes)") THEN r_csv \o r_mcf ELSE <<>>

IndexIn(seq, f) == {i \in 1..Len(seq) : seq[i] = f}

\* C11: in a run of an import mode in which no store, file-system or reporter
\* call fails, every CSV file and every MCF file of the input is imported, and
\* every CSV file is imported before any MCF file.
C11_CsvBeforeMcf ==
    (r_pc = "returned" /\ ImportMode /\ NoEnvironmentFailure)
    => /\ \A k \in 1..Len(r_files) :
             (IsCsvFile(r_files[k]) \/ IsMcfFile(r_files[k]))
                => IndexIn(ImportedFiles, r_files[k]) # {}
       /\ \A i, j \in 1..Len(ImportedFiles) :
             (IsCsvFile(ImportedFiles[i]) /\ ~IsCsvFile(ImportedFiles[j])) => i < j

-----------------------------------------------------------------------------
(* The sort of a group of files on its own: list.sort(key=lambda f: f.name()) *)

MaxSorted == 3

SortPaths == {foo_csv, foo1_csv, a_csv, path_to_foo_csv, other_foo_csv}

\* a group in the order the file system enumerated it
SortInputs ==
    UNION { { fs \in [1..n -> {FileOf(InRoot, p) : p \in SortPaths}] :
                \A i, j \in 1..n : i # j => fs[i] # fs[j] } : n \in 0..MaxSorted }

SortInit ==
    /\ r_pc = "unsorted"
    /\ r_files \in SortInputs
    /\ r_csv = <<>>
    /\ r_mcf = <<>>
    /\ r_mode = "customdc"
    /\ r_special = <<>>
    /\ r_found = {}
    /\ r_gen = FALSE
    /\ r_sv = FALSE
    /\ r_log = <<>>
    /\ r_err = NoError
    /\ r_reporter = FALSE
    /\ r_reports = <<>>
    /\ r_db = NoDb
    /\ r_prev = <<>>
    /\ r_stores = <<>>
    /\ MatchIdle
    /\ ConfigIdle
    /\ ImporterIdle
    /\ MainIdle

\* input_csv_files.sort(key=lambda f: f.name())
SortCall ==
    /\ r_pc = "unsorted"
    /\ r_csv' = SortByName(r_files)
    /\ r_pc' = "sorted"
    /\ UNCHANGED <<r_mcf, r_found, r_log, r_err, r_reporter, r_reports, r_db>>
    /\ RunnerFrame /\ OthersIdle

SortNext == SortCall

SpecSort == SortInit /\ [][SortNext]_vars

\* the same files in every enumeration order
Enumerations(files) ==
    { q \in [1..Len(files) -> {files[i] : i \in 1..Len(files)}] :
        \A i, j \in 1..Len(files) : i # j => q[i] # q[j] }

\* C12: the processing order of a group of files is ascending by file name and
\* is the same for every order in which the file system enumerates the files,
\* in any directory layout.
C12_OrderIndependentOfEnumeration ==
    r_pc = "sorted" =>
        /\ \A i, j \in 1..Len(r_csv) :
              i < j => ~StrLess(File_name(r_csv[j]), File_name(r_csv[i]))
        /\ \A q \in Enumerations(r_files) : SortByName(q) = r_csv

-----------------------------------------------------------------------------
(* Runner.run: the run-level "started" report *)

\* the files of the input that belong to a group
RECURSIVE Select(_, _)
Select(files, csv) ==
    IF files = <<>> THEN <<>>
    ELSE LET f == Head(files)
             rest == Select(Tail(files), csv)
         IN  IF (csv /\ IsCsvFile(f)) \/ (~csv /\ IsMcfFile(f)) THEN <<f>> \o rest ELSE rest

\* C13: in a run of an import mode in which no store, file-system or reporter
\* call fails, the run-level "started" report is made exactly once, and its
\* file list is the sequence of files the run imports: the CSV files of the
\* input in name order, then the MCF files in name order.
C13_StartedOnceWithImportOrder ==
    (r_pc = "returned" /\ ImportMode /\ NoEnvironmentFailure)
    => /\ Cardinality(Reported("started")) = 1
       /\ \A i \in Reported("started") :
             /\ r_reports[i].files = ImportedFiles
             /\ r_reports[i].files =
                   SortByName(Select(r_files, TRUE)) \o SortByName(Select(r_files, FALSE))

-----------------------------------------------------------------------------
(* McfImporter in custom-DC mode: claims about the conversion to triples *)

\* the file has been read and parsed, and _mcf_to_triples has returned or raised
Converted == ~i_main_dc /\ i_pc \notin {"start", "try"} /\ i_err.kind # "IOError"

\* what the conversion raised, if anything
ConversionError == IF i_err.kind = "DbError" THEN NoError ELSE i_err

Records == {i_records[k] : k \in 1..Len(i_records)}
DcidRecords == {r \in Records : r.predicate = _DCID}
OtherRecords == {r \in Records : r.predicate # _DCID}

\* non-dcid records whose subject has no dcid record in the file
Unresolved == {r \in OtherRecords : \A d \in DcidRecords : d.subject_id # r.subject_id}

\* records whose value is longer than the maximum
TooLong == {r \in Records : r.value.len > 65535}

IsIdError(e) ==
    /\ e.kind = "ValueError: dcid not specified"
    /\ \E r \in Unresolved : e.node = r.subject_id

IsLengthError(e) ==
    /\ e.kind = "ValueError: too long"
    /\ \E r \in TooLong : e.node = r.subject_id /\ e.property = r.predicate

\* C14: in custom-DC mode, a file with a non-dcid record whose subject has no
\* dcid record fails with an id-resolution error naming that subject; a file
\* with a record whose value is longer than 2^16 - 1 characters fails with a
\* length error naming the property and the node (a file with both fails with
\* one of the two); a file with neither, values of exactly the maximum length
\* included, is converted without error.
C14_McfErrors ==
    Converted =>
        /\ (Unresolved # {} /\ TooLong = {}) => IsIdError(ConversionError)
        /\ (TooLong # {} /\ Unresolved = {}) => IsLengthError(ConversionError)
        /\ (TooLong # {} /\ Unresolved # {})
              => (IsIdError(ConversionError) \/ IsLengthError(ConversionError))
        /\ (TooLong = {} /\ Unresolved = {}) => ConversionError = NoError

\* the non-dcid records of the file, in file order
Buffered ==
    LET Keep(r) == r.predicate # _DCID
    IN  SelectSeq(i_records, Keep)

\* the dcid values the file registers for a local subject id
DcidsOf(local) == {d.value.s : d \in {r \in DcidRecords : r.subject_id = local}}

IsSet(field) == field # Unset

\* C16: every triple the MCF importer produces has exactly one of object_id
\* and object_value set: the record's value is in object_id when the record's
\* value type is ID, and in object_value for every other value type.
C16_ExactlyOneObject ==
    (Converted /\ ConversionError = NoError)
    => /\ Len(i_triples) = Len(Buffered)
       /\ \A k \in 1..Len(i_triples) :
             LET t == i_triples[k]
                 r == Buffered[k]
             IN  /\ IsSet(t.object_id) # IsSet(t.object_value)
                 /\ r.value_type = "ID"
                       => (t.object_id = r.value /\ ~IsSet(t.object_value))
                 /\ r.value_type # "ID"
                       => (t.object_value = r.value /\ ~IsSet(t.object_id))

\* an import that produced a reference triple from a record of value type ID
C16_Witness ==
    /\ i_pc = "returned"
    /\ ~i_main_dc
    /\ Len(i_triples) = 1
    /\ Buffered[1].value_type = "ID"
    /\ IsSet(i_triples[1].object_id)
    /\ i_db = <<i_triples>>

-----------------------------------------------------------------------------
(* McfImporter in main-DC mode *)

\* C17: in main-DC mode the importer writes the input file's content,
\* unchanged, to the output file that has the input file's relative path, at
\* most once and exactly once when it returns; it inserts nothing into the
\* store, builds no triples, and raises neither the dcid nor the length error.
C17_MainDcCopiesVerbatim ==
    i_main_dc =>
        /\ i_db = <<>>
        /\ i_triples = <<>>
        /\ Positions(i_log, "insert") = {}
        /\ i_err.kind \notin {"ValueError: dcid not specified", "ValueError: too long"}
        /\ Len(i_out) <= 1
        /\ \A k \in 1..Len(i_out) :
              /\ i_out[k].content = i_records
              /\ i_out[k].file.path = i_input_file.path
              /\ i_out[k].file.parent_path = OutRoot
        /\ i_pc = "returned" => Len(i_out) = 1

\* a main-DC import that has returned for a file in a subdirectory whose
\* records the custom-DC conversion would reject
C17_Witness ==
    /\ i_main_dc
    /\ i_pc = "returned"
    /\ i_input_file.path = PathTo \o a_mcf
    /\ Len(i_out) = 1
    /\ Unresolved # {}
    /\ TooLong # {}

-----------------------------------------------------------------------------
(* Runner.run in schema-update mode *)

\* C18: in schema-update mode run() opens and migrates the store and then
\* only commits and closes it and reports done (or reports the failure of one
\* of these): it never clears the store, never enumerates or imports a file,
\* never inserts triples, never records an import status and never reports
\* "started"; when none of its calls fails it has committed, closed and
\* reported done by the time it returns.
C18_SchemaUpdateSkipsImports ==
    r_mode = "schemaupdate" =>
        /\ \A i \in 1..Len(r_log) :
              r_log[i].step \in {"create_and_update_db", "commit_and_close", "report_done",
                                 "report_failure"}
        /\ r_csv = <<>> /\ r_mcf = <<>> /\ r_found = {}
        /\ Reported("started") = {}
        /\ (r_pc = "returned" /\ Raisings = {})
              => /\ r_log = <<Step("create_and_update_db", TRUE), Step("commit_and_close", TRUE),
                              Step("report_done", TRUE)>>
                 /\ Cardinality(Reported("done")) = 1

\* a schema-update run over a non-empty input, with hierarchy generation
\* enabled, that has returned and reported done
C18_Witness ==
    /\ r_mode = "schemaupdate"
    /\ r_pc = "returned"
    /\ r_files # <<>>
    /\ r_gen
    /\ Reported("done") # {}

-----------------------------------------------------------------------------
(* Runner._generate_svg_hierarchy *)

\* C19: the hierarchy generator is not invoked and no hierarchy triples are
\* inserted when the configuration does not enable hierarchy generation, when
\* the run is in main-DC mode, or when the store holds no
\* statistical-variable triples.
C19_HierarchySkipped ==
    (~r_gen \/ r_mode = "maindc" \/ ~r_sv)
    => (~Ran("generate_hierarchy") /\ ~Ran("insert_triples(svg)"))

-----------------------------------------------------------------------------
(* Runner._create_importer on its own: one Config, importers created for files *)

\* Runner._create_importer: the importer class instantiated, or the error
\* raised.  import_type is read first; format is read for OBSERVATIONS only.
_create_importer(cfg, memo, f) ==
    LET t == QueryOutcome(cfg, memo, "import_type", f)
        fmt == QueryOutcome(cfg, t.resolved.memo, "format", f)
        made(importer, q) ==
            [file |-> f, acc |-> "_create_importer", resolved |-> q.resolved,
             out |-> Value(Enum(importer))]
    IN  IF t.out.exc # "none" THEN [t EXCEPT !.acc = "_create_importer"]
        ELSE IF t.out.val = Enum("ImportType.OBSERVATIONS")
        THEN IF fmt.out.exc # "none" THEN [fmt EXCEPT !.acc = "_create_importer"]
             ELSE IF fmt.out.val = Enum("InputFileFormat.VARIABLE_PER_ROW")
             THEN made("VariablePerRowImporter", fmt)
             ELSE made("ObservationsImporter", fmt)
        ELSE IF t.out.val = Enum("ImportType.EVENTS") THEN made("EventsImporter", t)
        ELSE IF t.out.val = Enum("ImportType.ENTITIES") THEN made("EntitiesImporter", t)
        ELSE [file |-> f, acc |-> "_create_importer", resolved |-> t.resolved,
              out |-> Error("ValueError: Unsupported import type", File_full_path(f))]

DispatchImportTypes ==
    {Absent, Str(s_observations), Str(s_events), Str(s_entities), Str(s_eVeNtS), Str(<<>>)}

DispatchFormats ==
    {Absent, Str(s_variablePerRow), Str(s_variablePerColumn), Str(s_INVALID), Str(<<>>)}

DispatchSettings ==
    {Setting2("importType", t, "format", fm) : t \in DispatchImportTypes, fm \in DispatchFormats}

MaxDispatchKeys == 1

DispatchKeys == {foo_csv, pat_foo_star_csv}

DispatchConfigs ==
    UNION { { c \in [1..n -> [key : DispatchKeys, settings : DispatchSettings]] :
                \A i, j \in 1..n : i # j => c[i].key # c[j].key } : n \in 0..MaxDispatchKeys }

DispatchInit ==
    /\ c_cfg \in DispatchConfigs
    /\ c_memo = {}
    /\ c_q = NoQuery
    /\ MatchIdle
    /\ ImporterIdle
    /\ RunnerIdle
    /\ MainIdle

CreateImporter ==
    \E f \in ConfigFiles :
        LET o == _create_importer(c_cfg, c_memo, f)
        IN  /\ c_q' = o
            /\ c_memo' = o.resolved.memo
            /\ UNCHANGED c_cfg
            /\ UNCHANGED <<matchVars, importerVars, runnerVars, mainVars>>

DispatchNext == CreateImporter

SpecDispatch == DispatchInit /\ [][DispatchNext]_vars

\* the error names the file and so no importer was created
FailsNamingFile(out, f) ==
    out.exc # "none" /\ out.names \in {File_full_path(f), File_str(f)}

\* C20: the importer made for a CSV file follows the (import_type, format)
\* table applied to the file's settings: OBSERVATIONS (or no importType) with
\* variablePerRow gives VariablePerRowImporter, with no format or
\* variablePerColumn ObservationsImporter; EVENTS gives EventsImporter and
\* ENTITIES EntitiesImporter whatever the format; every other import type or
\* format value fails with an error naming the file.
C20_ImporterDispatch ==
    c_q.acc = "_create_importer" =>
        LET st == RuleSettings(c_cfg, c_q.file)
            t == st["importType"]
            fm == st["format"]
        IN  IF t \in {Absent, Str(s_observations)}
            THEN IF fm = Str(s_variablePerRow)
                 THEN c_q.out = Value(Enum("VariablePerRowImporter"))
                 ELSE IF fm \in {Absent, Str(s_variablePerColumn)}
                 THEN c_q.out = Value(Enum("ObservationsImporter"))
                 ELSE FailsNamingFile(c_q.out, c_q.file)
            ELSE IF t = Str(s_events) THEN c_q.out = Value(Enum("EventsImporter"))
            ELSE IF t = Str(s_entities) THEN c_q.out = Value(Enum("EntitiesImporter"))
            ELSE FailsNamingFile(c_q.out, c_q.file)

-----------------------------------------------------------------------------
(* Two runs on one output store *)

\* the second run has returned, having taken the steps of the first with the
\* same outcomes
SecondRunReturned ==
    /\ r_pc = "returned"
    /\ Len(r_prev) = 1
    /\ r_prev[1].log = r_log

\* C21: when the pipeline has run twice with the same configuration and input
\* files on an output store that was empty before the first run, the triples
\* committed after the second run are exactly those committed after the first,
\* none duplicated and none missing.
C21_SecondRunLeavesSameTriples ==
    SecondRunReturned => r_db.committed.triples = r_prev[1].committed.triples

\* two completed import runs that committed node and hierarchy triples
C21_Witness ==
    /\ SecondRunReturned
    /\ Reported("done") # {}
    /\ r_db.committed.triples = <<"nodes", "svg">>
    /\ r_db.committed.history = <<"SUCCESS", "SUCCESS">>

-----------------------------------------------------------------------------
(* The command line: main.py *)

\* the values of the four flags
InputPaths == {"", "input", "gs://bucket/input", "input/data.csv"}
OutputDirs == {"", ".data/output", "gs://bucket/output"}
EntityTypes == {"None", "City", "Country"}
IgnoreColumns == {<<>>, <<"a">>, <<"a", "b">>}

MainInit ==
    /\ cli \in { [pc |-> "start",
                  flags |-> [input_path |-> ip, output_dir |-> od, entity_type |-> et,
                             ignore_columns |-> ic],
                  exit |-> 0, exc |-> "none", ran |-> FALSE] :
                 ip \in InputPaths, od \in OutputDirs, et \in EntityTypes,
                 ic \in IgnoreColumns }
    /\ MatchIdle
    /\ ConfigIdle
    /\ ImporterIdle
    /\ RunnerIdle

\* app.run(main)
Main ==
    /\ cli.pc = "start"
    /\ LET out == main(cli.flags)
       IN  cli' = [cli EXCEPT !.pc = "exited", !.exit = out.exit, !.exc = out.exc,
                              !.ran = out.ran]
    /\ UNCHANGED <<matchVars, configVars, importerVars, runnerVars>>

MainNext == Main

SpecMain == MainInit /\ [][MainNext]_vars

\* the flags name an input and an output
UsableFlags == cli.flags.input_path # "" /\ cli.flags.output_dir # ""

\* C22: the command-line entry point ends with exit code 0 when the run
\* succeeds, and with a non-zero exit code whenever a failure was reported: a
\* process started with usable flags runs the pipeline, and its exit code is 0
\* exactly when no failure was reported.
C22_ExitCodeTellsOutcome ==
    (cli.pc = "exited" /\ UsableFlags) => (cli.ran /\ cli.exit = 0 /\ cli.exc = "none")

-----------------------------------------------------------------------------
(* The order of the steps of run() *)

\* the names of the steps taken so far, in order
StepsOf(log) == [i \in 1..Len(log) |-> log[i].step]

\* what _generate_svg_hierarchy may log: skipped, or selection, generation and
\* insertion, with the log line when the selection is empty
HierarchyRuns ==
    { <<"hierarchy_skipped">>,
      <<"select_sv_triples", "generate_hierarchy", "insert_triples(svg)">>,
      <<"select_sv_triples", "log_no_sv_triples", "generate_hierarchy",
        "insert_triples(svg)">> }

BeforeHierarchy ==
    <<"create_and_update_db", "maybe_clear_before_import", "_run_all_data_imports",
      "insert_triples(nodes)">>

AfterHierarchy == <<"generate_svg_cache", "generate_nl_sentences">>

Closing == <<"insert_import_info(SUCCESS)", "commit_and_close", "report_done">>

\* the calls that operate on the store
StoreSteps ==
    { "create_and_update_db", "maybe_clear_before_import", "insert_triples(nodes)",
      "select_sv_triples", "insert_triples(svg)", "insert_import_info(SUCCESS)",
      "commit_and_close" }

IsPrefix(p, q) == Len(p) <= Len(q) /\ \A i \in 1..Len(p) : p[i] = q[i]

CompletedImportRun ==
    r_pc = "returned" /\ ImportMode /\ Raisings = {} /\ Reported("failure") = {}

\* C23: an import-mode run that completes without error takes each step once
\* and in order: open the store, clear, import the files, insert the node
\* triples, hierarchy, cache, sentences, SUCCESS status, commit and close,
\* report done.  In every run the SUCCESS status is recorded only after the
\* imports and every post-import step returned, and no store call follows
\* commit_and_close.
C23_StepOrder ==
    /\ CompletedImportRun =>
          \E h \in HierarchyRuns :
              StepsOf(r_log) = BeforeHierarchy \o h \o AfterHierarchy \o Closing
    /\ \A i \in 1..Len(r_log) :
          r_log[i] = Step("insert_import_info(SUCCESS)", TRUE) =>
              /\ \A j \in 1..(i - 1) : r_log[j].ok
              /\ \E h \in HierarchyRuns :
                    StepsOf(SubSeq(r_log, 1, i - 1)) = BeforeHierarchy \o h \o AfterHierarchy
    /\ \A i, j \in 1..Len(r_log) :
          (r_log[i].step = "commit_and_close" /\ i < j) => r_log[j].step \notin StoreSteps

\* a completed custom-DC run that generated the hierarchy and committed
C23_Witness ==
    /\ CompletedImportRun
    /\ Ran("generate_hierarchy")
    /\ Reported("done") # {}
    /\ r_db.committed.history = <<"SUCCESS">>

-----------------------------------------------------------------------------
(* The memo of _per_file_config *)

\* a key recorded for a full path, 'no match' included, stays as recorded
MemoKept == \A e \in c_memo : e \in c_memo'

\* the query made in this step returned what the resolution rule gives
AnsweredByRule ==
    /\ c_q'.resolved.exc = "none"
    /\ c_q'.resolved.settings = RuleSettings(c_cfg, c_q'.file)

\* C24: over any sequence of per-file queries on one Config, the key memoized
\* for a full path never changes once recorded, and every query returns the
\* settings of the un-memoized resolution: exact base name, else first
\* matching pattern key in declaration order, else empty.
C24_MemoFixedAndTransparent == [][MemoKept /\ AnsweredByRule]_vars

-----------------------------------------------------------------------------
(* Classification of the input files by extension *)

\* the name ends with the extension
HasExtension(name, ext) ==
    /\ Len(name) >= Len(ext)
    /\ SubSeq(name, Len(name) - Len(ext) + 1, Len(name)) = ext

\* C25: in a run, a file is in the CSV group exactly when its name has the
\* extension .csv and in the MCF group exactly when it has the extension .mcf;
\* no file is in both groups or twice in one, so none is imported or listed
\* in the started report more than once, and no other file is imported.
C25_ClassifiedByExtension ==
    (r_pc = "returned" /\ ImportMode /\ NoEnvironmentFailure)
    => \A k \in 1..Len(r_files) :
          LET f == r_files[k]
          IN  /\ IndexIn(r_csv, f) # {} <=> HasExtension(File_name(f), Csv)
              /\ IndexIn(r_mcf, f) # {} <=> HasExtension(File_name(f), Mcf)
              /\ Cardinality(IndexIn(r_csv \o r_mcf, f)) <= 1
              /\ \A i \in Reported("started") :
                    Cardinality(IndexIn(r_reports[i].files, f)) <= 1

-----------------------------------------------------------------------------
(* File-scoped failure records *)

\* the file reporter holds a failure record with the error's detail
FileFailureRecorded(kind) ==
    \E k \in Positions(i_log, "failure") : i_log[k].err.kind = kind

\* C26: whenever an input file aborts the run, by a failure of its importer
\* or by a configuration error raised while the file is dispatched, the
\* reporter holds a file-scoped failure record for that file with the error's
\* detail.
C26_FileScopedFailureRecord ==
    /\ i_pc = "raised" => FileFailureRecorded(i_err.kind)
    /\ (c_q.acc = "_create_importer" /\ c_q.out.exc \notin {"none", "AttributeError"})
          => FileFailureRecorded(c_q.out.exc)

-----------------------------------------------------------------------------
(* McfImporter on files of up to three records *)

MaxFileRecords == 3

FileTexts == {Text("d1", 2), Text("over", _MAX_CHARS + 1)}

FileParserTriples ==
    { ParserTriple(s, p, v, t) :
        s \in LocalIds, p \in Predicates, v \in FileTexts, t \in ValueTypes }

\* the contents of an MCF file, as the records the parser yields
FileRecords == UNION { [1..n -> FileParserTriples] : n \in 0..MaxFileRecords }

McfFileInit ==
    /\ i_pc = "start"
    /\ \E is_main_dc \in BOOLEAN :
          LET importer == _create_mcf_importer(FileOf(InRoot, a_mcf), OutRoot, is_main_dc)
          IN  /\ i_input_file = importer.input_file
              /\ i_output_file = importer.output_file
              /\ i_main_dc = importer.is_main_dc
    /\ i_records \in FileRecords
    /\ i_log = <<>>
    /\ i_err = NoError
    /\ i_triples = <<>>
    /\ i_db = <<>>
    /\ i_out = <<>>
    /\ MatchIdle
    /\ ConfigIdle
    /\ RunnerIdle
    /\ MainIdle

SpecMcfFile == McfFileInit /\ [][McfNext]_vars

\* the triples that reached the store, over all insert_triples calls
Stored == IF i_db = <<>> THEN <<>> ELSE i_db[1] \o (IF Len(i_db) > 1 THEN i_db[2] ELSE <<>>)

-----------------------------------------------------------------------------
(* The file-system stores of the Runner *)

\* C28: when run() has returned, whether the run succeeded or failed, every
\* store the Runner opened, each input store and the output store, has been
\* closed.
C28_StoresClosedAfterRun ==
    r_pc = "returned" => \A k \in 1..Len(r_stores) : r_stores[k].closed

=============================================================================
